---- MODULE Spec2Model ----
(***************************************************************************)
(* A model of the openfootball crate (src/src/lib.rs): the season replay   *)
(* (Season::standings, Season::odds, Game::update_stats, expected_score)   *)
(* and the season-file reader (Season::from_path).                         *)
(*                                                                         *)
(* Two specifications share the module.  Spec replays a Season through any *)
(* sequence of standings and odds calls, one loop iteration per step.      *)
(* SpecParse reads a season file line by line.                             *)
(*                                                                         *)
(* f64 expected scores are carried in fixed point, in units of 1/Scale.    *)
(* Option<T> is a sequence of length 0 (None) or 1 (Some).                 *)
(***************************************************************************)
EXTENDS Integers, Sequences, FiniteSets, TLC

VARIABLES
    \* ---- the replay (Spec) ----
    games,               \* Season::games, the fixtures in file order
    initial_elo_rating,  \* parameter of standings / odds
    k,                   \* parameter of standings / odds, in units of 1/Scale
    pc,                  \* "idle", "standings", "odds_replay", "odds_collect"
    idx,                 \* position of the running loop in games (1-based)
    stats,               \* the HashMap<String, Stats> of the running call
    before,              \* history: stats as the last loop iteration found it
    standings,           \* the Vec<Standing> being built by standings
    odds,                \* the Vec<Odds> being collected by odds
    matchweek,           \* the target matchweek of the running odds call
    result,              \* Option of the value the last call returned
    \* ---- the reader (SpecParse) ----
    rd                   \* the locals of Season::from_path (see InitParse)

replayVars == <<games, initial_elo_rating, k, pc, idx, stats, before, standings,
                odds, matchweek, result>>
vars == <<games, initial_elo_rating, k, pc, idx, stats, before, standings, odds,
          matchweek, result, rd>>

----------------------------------------------------------------------------
(* Bounds of the model *)

MaxGames == 2
MaxGoals == 2
MaxRound == 2

----------------------------------------------------------------------------
(* Option<T> *)

None == <<>>
Some(x) == <<x>>

----------------------------------------------------------------------------
(* expected_score and the f64 arithmetic of the rating update *)

\* 1.0 in the fixed-point unit of the model
Scale == 1000000

\* 1. / (1. + 10f64.powf(d / 400.)) for d = away - home in -200 .. 200,
\* rounded to the nearest 1/Scale.  Entry d + 201 is the value at d.
ExpectedTable ==
  <<
     759747, 758695, 757639, 756581, 755519, 754454, 753386, 752315, 751241, 750163,
     749083, 748000, 746913, 745823, 744730, 743635, 742536, 741434, 740328, 739220,
     738109, 736995, 735877, 734757, 733634, 732507, 731378, 730245, 729110, 727972,
     726830, 725686, 724538, 723388, 722235, 721078, 719919, 718757, 717592, 716424,
     715253, 714079, 712902, 711723, 710540, 709355, 708166, 706975, 705781, 704585,
     703385, 702183, 700977, 699769, 698559, 697345, 696129, 694910, 693688, 692463,
     691236, 690006, 688774, 687538, 686300, 685060, 683816, 682570, 681322, 680071,
     678817, 677561, 676302, 675040, 673776, 672510, 671241, 669969, 668695, 667418,
     666139, 664858, 663574, 662288, 660999, 659708, 658415, 657119, 655821, 654520,
     653217, 651912, 650605, 649295, 647983, 646669, 645352, 644034, 642713, 641390,
     640065, 638738, 637408, 636077, 634743, 633408, 632070, 630730, 629389, 628045,
     626699, 625351, 624002, 622650, 621297, 619941, 618584, 617225, 615864, 614501,
     613137, 611771, 610402, 609033, 607661, 606288, 604913, 603536, 602158, 600778,
     599397, 598014, 596629, 595243, 593855, 592466, 591076, 589684, 588290, 586895,
     585499, 584101, 582702, 581301, 579900, 578497, 577092, 575687, 574280, 572872,
     571463, 570053, 568641, 567229, 565815, 564400, 562985, 561568, 560150, 558731,
     557312, 555891, 554469, 553047, 551624, 550199, 548774, 547349, 545922, 544495,
     543066, 541638, 540208, 538778, 537347, 535916, 534484, 533051, 531618, 530185,
     528751, 527316, 525881, 524445, 523010, 521573, 520137, 518700, 517263, 515825,
     514387, 512949, 511511, 510072, 508634, 507195, 505756, 504317, 502878, 501439,
     500000, 498561, 497122, 495683, 494244, 492805, 491366, 489928, 488489, 487051,
     485613, 484175, 482737, 481300, 479863, 478427, 476990, 475555, 474119, 472684,
     471249, 469815, 468382, 466949, 465516, 464084, 462653, 461222, 459792, 458362,
     456934, 455505, 454078, 452651, 451226, 449801, 448376, 446953, 445531, 444109,
     442688, 441269, 439850, 438432, 437015, 435600, 434185, 432771, 431359, 429947,
     428537, 427128, 425720, 424313, 422908, 421503, 420100, 418699, 417298, 415899,
     414501, 413105, 411710, 410316, 408924, 407534, 406145, 404757, 403371, 401986,
     400603, 399222, 397842, 396464, 395087, 393712, 392339, 390967, 389598, 388229,
     386863, 385499, 384136, 382775, 381416, 380059, 378703, 377350, 375998, 374649,
     373301, 371955, 370611, 369270, 367930, 366592, 365257, 363923, 362592, 361262,
     359935, 358610, 357287, 355966, 354648, 353331, 352017, 350705, 349395, 348088,
     346783, 345480, 344179, 342881, 341585, 340292, 339001, 337712, 336426, 335142,
     333861, 332582, 331305, 330031, 328759, 327490, 326224, 324960, 323698, 322439,
     321183, 319929, 318678, 317430, 316184, 314940, 313700, 312462, 311226, 309994,
     308764, 307537, 306312, 305090, 303871, 302655, 301441, 300231, 299023, 297817,
     296615, 295415, 294219, 293025, 291834, 290645, 289460, 288277, 287098, 285921,
     284747, 283576, 282408, 281243, 280081, 278922, 277765, 276612, 275462, 274314,
     273170, 272028, 270890, 269755, 268622, 267493, 266366, 265243, 264123, 263005,
     261891, 260780, 259672, 258566, 257464, 256365, 255270, 254177, 253087, 252000,
     250917, 249837, 248759, 247685, 246614, 245546, 244481, 243419, 242361, 241305,
     240253
  >>

TableMax == (Len(ExpectedTable) - 1) \div 2

ExpectedHome(d) == ExpectedTable[d + TableMax + 1]

\* expected_score handing the home side's score to the away side as well
ExpectedScoreNoComplement(home, away) ==
    LET h == ExpectedHome(away - home)
    IN  << [value |-> h, d |-> away - home, side |-> 1],
           [value |-> h, d |-> away - home, side |-> 2] >>

\* fn expected_score(home, away) -> (home, away).  Each f64 of the pair is
\* [value, d, side]: value is the score to the nearest 1/Scale; d (the
\* rating difference away - home) and side (1: the `home` of line 406, 2: the
\* `away` of line 407, computed as 1. - home) tell which f64 it is, since two
\* f64 of one value to the nearest 1/Scale can differ in their last bits.
expected_score(home, away) ==
    LET h == ExpectedHome(away - home)
    IN  << [value |-> h, d |-> away - home, side |-> 1],
           [value |-> Scale - h, d |-> away - home, side |-> 2] >>

\* RoundF64 with the ties going up, to the greater integer
RoundHalfUp(x) == (x + Scale \div 2) \div Scale

\* f64::round on a value in units of 1/Scale: nearest integer, ties away
\* from zero
RoundF64(x) ==
    IF x >= 0 THEN (x + Scale \div 2) \div Scale
              ELSE -(((-x) + Scale \div 2) \div Scale)

\* K factors that are not whole numbers, in units of 1/Scale.  This one is
\* the f64 3.0349394884211307: with it and ratings 1498 (home) and 1502
\* (away), k * (0. - home) is -1.4999999999999998 in f64 while
\* k * (1. - away) is 1.5.
TieFactors == {3034939}

\* (k * (actual - expected)).round() as i32 for the k of TieFactors, computed
\* in f64.  Entry d + TieTableMax + 1 is for the rating difference
\* d = away - home: the values for expected = home of expected_score and
\* actual = 0., 0.5, 1., then those for expected = away.
TieTable ==
  <<
     <<-2, 0, 1, -1, 0, 2>>, <<-2, 0, 1, -1, 0, 2>>, <<-2, 0, 1, -1, 0, 2>>,
     <<-2, 0, 1, -1, 0, 2>>, <<-2, 0, 1, -1, 0, 2>>, <<-2, 0, 1, -1, 0, 2>>,
     <<-2, 0, 1, -1, 0, 2>>, <<-2, 0, 1, -1, 0, 2>>, <<-2, 0, 1, -1, 0, 2>>,
     <<-2, 0, 1, -1, 0, 2>>, <<-2, 0, 1, -1, 0, 2>>, <<-2, 0, 1, -1, 0, 2>>,
     <<-2, 0, 1, -1, 0, 2>>, <<-2, 0, 1, -1, 0, 2>>, <<-2, 0, 1, -1, 0, 2>>,
     <<-2, 0, 1, -1, 0, 2>>, <<-2, 0, 1, -1, 0, 2>>, <<-2, 0, 1, -1, 0, 2>>,
     <<-2, 0, 1, -1, 0, 2>>, <<-2, 0, 1, -1, 0, 2>>, <<-2, 0, 2, -2, 0, 2>>,
     <<-2, 0, 2, -2, 0, 2>>, <<-2, 0, 2, -2, 0, 2>>, <<-2, 0, 2, -2, 0, 2>>,
     <<-2, 0, 2, -2, 0, 2>>, <<-2, 0, 2, -2, 0, 2>>, <<-2, 0, 2, -2, 0, 2>>,
     <<-2, 0, 2, -2, 0, 2>>, <<-1, 0, 2, -2, 0, 2>>, <<-1, 0, 2, -2, 0, 1>>,
     <<-1, 0, 2, -2, 0, 1>>, <<-1, 0, 2, -2, 0, 1>>, <<-1, 0, 2, -2, 0, 1>>,
     <<-1, 0, 2, -2, 0, 1>>, <<-1, 0, 2, -2, 0, 1>>, <<-1, 0, 2, -2, 0, 1>>,
     <<-1, 0, 2, -2, 0, 1>>, <<-1, 0, 2, -2, 0, 1>>, <<-1, 0, 2, -2, 0, 1>>,
     <<-1, 0, 2, -2, 0, 1>>, <<-1, 0, 2, -2, 0, 1>>, <<-1, 0, 2, -2, 0, 1>>,
     <<-1, 0, 2, -2, 0, 1>>, <<-1, 0, 2, -2, 0, 1>>, <<-1, 0, 2, -2, 0, 1>>,
     <<-1, 0, 2, -2, 0, 1>>, <<-1, 0, 2, -2, 0, 1>>, <<-1, 0, 2, -2, 0, 1>>,
     <<-1, 0, 2, -2, 0, 1>>
  >>

TieTableMax == (Len(TieTable) - 1) \div 2

\* (k * (actual - expected)).round() as i32 of line 353: kk and actual in
\* units of 1/Scale, expected an f64 of expected_score
RoundedDelta(kk, actual, expected) ==
    CASE kk % Scale = 0 ->
           RoundF64((kk \div Scale) * (actual - expected.value))
      [] kk \in TieFactors ->
           TieTable[expected.d + TieTableMax + 1]
                   [3 * (expected.side - 1) + (2 * actual) \div Scale + 1]

----------------------------------------------------------------------------
(* The data of a Season *)

Teams == {"A", "B"}

\* The replay model plays every fixture of round r on one day.
DateOfRound(r) == [year |-> 2018, month |-> 8, day |-> 10 + r]

Scores == [home : 0 .. MaxGoals, away : 0 .. MaxGoals]

\* struct Game: a fixture, played (scores = Some) or unplayed (None)
Games ==
    { [date |-> DateOfRound(r), matchweek |-> r, home |-> h, away |-> a,
       scores |-> s] :
        r \in 1 .. MaxRound, h \in Teams, a \in Teams,
        s \in {None} \cup {Some(x) : x \in Scores} }

Seasons == UNION { [1 .. n -> Games] : n \in 0 .. MaxGames }

\* impl Stats { fn new }
StatsNew(initial) ==
    [wins |-> 0, draws |-> 0, losses |-> 0, goals_for |-> 0,
     goals_against |-> 0, elo_rating |-> initial]

\* SeasonStats handing out the map of the call before, when there was one
SeasonStatsKept(gs, initial) ==
    LET teams == {gs[i].home : i \in DOMAIN gs} \cup {gs[i].away : i \in DOMAIN gs}
    IN  IF teams # {} /\ DOMAIN stats = teams THEN stats
        ELSE [t \in teams |-> StatsNew(initial)]

\* SeasonStats scanning the played games only
SeasonStatsPlayedOnly(gs, initial) ==
    LET played == {i \in DOMAIN gs : gs[i].scores # None}
    IN  [t \in {gs[i].home : i \in played} \cup {gs[i].away : i \in played}
            |-> StatsNew(initial)]

\* fn Season::stats: one fresh Stats per team named by any game
SeasonStats(gs, initial) ==
    [t \in {gs[i].home : i \in DOMAIN gs} \cup {gs[i].away : i \in DOMAIN gs}
        |-> StatsNew(initial)]

----------------------------------------------------------------------------
(* Game::update_stats *)

\* ActualScore with the comparison of line 343 turned round
ActualScoreInverted(goals_for, goals_against) ==
    IF goals_for < goals_against THEN Scale
    ELSE IF goals_for > goals_against THEN 0
    ELSE Scale \div 2

\* ActualScore weighted by the goal margin, half a point a goal
ActualScoreMargin(goals_for, goals_against) ==
    IF goals_for > goals_against
    THEN Scale + (Scale \div 2) * (goals_for - goals_against)
    ELSE IF goals_for < goals_against
    THEN -((Scale \div 2) * (goals_against - goals_for))
    ELSE Scale \div 2

\* the `actual` of the update closure: 1., 0. or 0.5
ActualScore(goals_for, goals_against) ==
    IF goals_for > goals_against THEN Scale
    ELSE IF goals_for < goals_against THEN 0
    ELSE Scale \div 2

\* Update counting a draw as a loss (<= for < in the comparison of line 346)
UpdateDrawAsLoss(st, g, team, goals_for, goals_against, expected, kk) ==
    IF team \notin DOMAIN st
    THEN [err |-> Some(team), stats |-> st, standing |-> None]
    ELSE
      LET s0 == st[team]
          s1 == [s0 EXCEPT
                   !.goals_for = @ + goals_for,
                   !.goals_against = @ + goals_against,
                   !.wins = IF goals_for > goals_against THEN @ + 1 ELSE @,
                   !.losses = IF goals_for <= goals_against THEN @ + 1 ELSE @,
                   !.elo_rating = @ + RoundedDelta(
                       kk, ActualScore(goals_for, goals_against), expected)]
      IN  [err |-> None,
           stats |-> [st EXCEPT ![team] = s1],
           standing |-> Some(
               [matchweek |-> g.matchweek, date |-> g.date, team |-> team,
                wins |-> s1.wins, draws |-> s1.draws, losses |-> s1.losses,
                goals_for |-> s1.goals_for,
                goals_against |-> s1.goals_against,
                elo_rating |-> s1.elo_rating])]

\* Update building the Standing from the team's Stats as it found them
UpdateSnapshotBefore(st, g, team, goals_for, goals_against, expected, kk) ==
    IF team \notin DOMAIN st
    THEN [err |-> Some(team), stats |-> st, standing |-> None]
    ELSE
      LET s0 == st[team]
          s1 == [s0 EXCEPT
                   !.goals_for = @ + goals_for,
                   !.goals_against = @ + goals_against,
                   !.wins = IF goals_for > goals_against THEN @ + 1 ELSE @,
                   !.losses = IF goals_for < goals_against THEN @ + 1 ELSE @,
                   !.draws = IF goals_for = goals_against THEN @ + 1 ELSE @,
                   !.elo_rating = @ + RoundedDelta(
                       kk, ActualScore(goals_for, goals_against), expected)]
      IN  [err |-> None,
           stats |-> [st EXCEPT ![team] = s1],
           standing |-> Some(
               [matchweek |-> g.matchweek, date |-> g.date, team |-> team,
                wins |-> s0.wins, draws |-> s0.draws, losses |-> s0.losses,
                goals_for |-> s0.goals_for,
                goals_against |-> s0.goals_against,
                elo_rating |-> s0.elo_rating])]

\* the closure `update` of update_stats, applied to the map st
Update(st, g, team, goals_for, goals_against, expected, kk) ==
    IF team \notin DOMAIN st
    THEN [err |-> Some(team), stats |-> st, standing |-> None]
    ELSE
      LET s0 == st[team]
          s1 == [s0 EXCEPT
                   !.goals_for = @ + goals_for,
                   !.goals_against = @ + goals_against,
                   !.wins = IF goals_for > goals_against THEN @ + 1 ELSE @,
                   !.losses = IF goals_for < goals_against THEN @ + 1 ELSE @,
                   !.draws = IF goals_for = goals_against THEN @ + 1 ELSE @,
                   !.elo_rating = @ + RoundedDelta(
                       kk, ActualScore(goals_for, goals_against), expected)]
      IN  [err |-> None,
           stats |-> [st EXCEPT ![team] = s1],
           standing |-> Some(
               [matchweek |-> g.matchweek, date |-> g.date, team |-> team,
                wins |-> s1.wins, draws |-> s1.draws, losses |-> s1.losses,
                goals_for |-> s1.goals_for,
                goals_against |-> s1.goals_against,
                elo_rating |-> s1.elo_rating])]

\* PlayedUpdate reading the away side's expected score after the home side
\* was updated
PlayedUpdateSequential(st, g, scores, kk) ==
    LET e1 == expected_score(st[g.home].elo_rating, st[g.away].elo_rating)
        home == Update(st, g, g.home, scores.home, scores.away, e1[1], kk)
        e2 == expected_score(home.stats[g.home].elo_rating,
                             home.stats[g.away].elo_rating)
        away == Update(home.stats, g, g.away, scores.away, scores.home, e2[2], kk)
    IN  [err |-> None, stats |-> away.stats,
         out |-> Some(<<home.standing[1], away.standing[1]>>)]

\* Game::update_stats for a played game, lines 321-370
PlayedUpdate(st, g, scores, kk) ==
    IF g.home \notin DOMAIN st
    THEN [err |-> Some(g.home), stats |-> st, out |-> None]
    ELSE IF g.away \notin DOMAIN st
    THEN [err |-> Some(g.away), stats |-> st, out |-> None]
    ELSE
      LET home_rating == st[g.home].elo_rating
          away_rating == st[g.away].elo_rating
          e == expected_score(home_rating, away_rating)
          home == Update(st, g, g.home, scores.home, scores.away, e[1], kk)
      IN  IF home.err # None
          THEN [err |-> home.err, stats |-> home.stats, out |-> None]
          ELSE
            LET away == Update(home.stats, g, g.away, scores.away, scores.home,
                               e[2], kk)
            IN  IF away.err # None
                THEN [err |-> away.err, stats |-> away.stats, out |-> None]
                ELSE [err |-> None, stats |-> away.stats,
                      out |-> Some(<<home.standing[1], away.standing[1]>>)]

\* UpdateStats taking a game without scores for a 0-0
UpdateStatsUnplayedAsNil(st, g, kk) ==
    PlayedUpdate(st, g,
                 IF g.scores = None THEN [home |-> 0, away |-> 0] ELSE g.scores[1],
                 kk)

\* fn Game::update_stats(&self, stats, k) -> Result<Option<(Standing, Standing)>>
\* as [err, stats, out]: err = Some(team) is Err(MissingTeam(team)), stats is the
\* map as the call leaves it, out is the Option of the pair.
UpdateStats(st, g, kk) ==
    IF g.scores = None THEN [err |-> None, stats |-> st, out |-> None]
    ELSE PlayedUpdate(st, g, g.scores[1], kk)

\* impl Odds { fn new }, as [err, odds]
OddsNew(g, st) ==
    IF g.home \notin DOMAIN st THEN [err |-> Some(g.home), odds |-> None]
    ELSE IF g.away \notin DOMAIN st THEN [err |-> Some(g.away), odds |-> None]
    ELSE
      LET e == expected_score(st[g.home].elo_rating, st[g.away].elo_rating)
      IN  [err |-> None,
           odds |-> Some([home |-> g.home, home_expected_score |-> e[1].value,
                          away |-> g.away, away_expected_score |-> e[2].value])]

----------------------------------------------------------------------------
(* Season::standings and Season::odds, one loop iteration per step *)

\* BeforeTarget letting the target round itself through
BeforeOrInTarget(g, mw) == g.matchweek <= mw

\* BeforeTarget leaving out the round just before the target as well
BeforeTargetButOne(g, mw) == g.matchweek + 1 < mw

\* the filter of line 221
BeforeTarget(g, mw) == g.matchweek < mw

\* InTargetRound taking the later rounds too
InTargetRoundOrLater(g, mw) == g.matchweek >= mw

\* the test of line 227
InTargetRound(g, mw) == g.matchweek = mw

InitialRatings == {1500}
KFactors == {1 * Scale, 32 * Scale}

Init ==
    /\ games \in Seasons
    /\ initial_elo_rating \in InitialRatings
    /\ k \in KFactors
    /\ pc = "idle"
    /\ idx = 0
    /\ stats = SeasonStats(<<>>, 0)
    /\ before = SeasonStats(<<>>, 0)
    /\ standings = <<>>
    /\ odds = <<>>
    /\ matchweek = 0
    /\ result = None
    /\ rd = [status |-> "unused"]      \* the reader is not running

\* Err(e) of a call
Failed(call, e) == Some([call |-> call, err |-> e, value |-> <<>>])
\* Ok(v) of a call
Returned(call, v) == Some([call |-> call, err |-> None, value |-> v])

\* standings: lines 194-195
CallStandings ==
    /\ pc = "idle"
    /\ pc' = "standings"
    /\ stats' = SeasonStats(games, initial_elo_rating)
    /\ before' = SeasonStats(games, initial_elo_rating)
    /\ standings' = <<>>
    /\ idx' = 1
    /\ odds' = <<>>
    /\ result' = None
    /\ UNCHANGED <<games, initial_elo_rating, k, matchweek, rd>>

\* standings: one iteration of the loop of lines 196-201
StandingsStep ==
    /\ pc = "standings"
    /\ idx <= Len(games)
    /\ before' = stats
    /\ LET r == UpdateStats(stats, games[idx], k)
       IN  IF r.err # None
           THEN /\ pc' = "idle"
                /\ result' = Failed("standings", r.err)
                /\ stats' = r.stats
                /\ UNCHANGED <<standings, idx>>
           ELSE /\ stats' = r.stats
                /\ standings' = IF r.out # None
                                THEN standings \o r.out[1]
                                ELSE standings
                /\ idx' = idx + 1
                /\ UNCHANGED <<pc, result>>
    /\ UNCHANGED <<games, initial_elo_rating, k, odds, matchweek, rd>>

\* standings: line 202
StandingsReturn ==
    /\ pc = "standings"
    /\ idx > Len(games)
    /\ pc' = "idle"
    /\ result' = Returned("standings", standings)
    /\ UNCHANGED <<games, initial_elo_rating, k, idx, stats, before, standings,
                   odds, matchweek, rd>>

\* odds: line 220
CallOdds(mw) ==
    /\ pc = "idle"
    /\ pc' = "odds_replay"
    /\ stats' = SeasonStats(games, initial_elo_rating)
    /\ before' = SeasonStats(games, initial_elo_rating)
    /\ matchweek' = mw
    /\ idx' = 1
    /\ odds' = <<>>
    /\ standings' = <<>>
    /\ result' = None
    /\ UNCHANGED <<games, initial_elo_rating, k, rd>>

\* odds: one game of the filtered loop of lines 221-223
OddsReplayStep ==
    /\ pc = "odds_replay"
    /\ idx <= Len(games)
    /\ before' = stats
    /\ IF BeforeTarget(games[idx], matchweek)
       THEN LET r == UpdateStats(stats, games[idx], k)
            IN  IF r.err # None
                THEN /\ pc' = "idle"
                     /\ result' = Failed("odds", r.err)
                     /\ stats' = r.stats
                     /\ UNCHANGED idx
                ELSE /\ stats' = r.stats
                     /\ idx' = idx + 1
                     /\ UNCHANGED <<pc, result>>
       ELSE /\ idx' = idx + 1
            /\ UNCHANGED <<stats, pc, result>>
    /\ UNCHANGED <<games, initial_elo_rating, k, standings, odds, matchweek, rd>>

\* odds: the first loop is exhausted, the filter_map of lines 224-233 starts
OddsReplayDone ==
    /\ pc = "odds_replay"
    /\ idx > Len(games)
    /\ pc' = "odds_collect"
    /\ idx' = 1
    /\ before' = stats
    /\ UNCHANGED <<games, initial_elo_rating, k, stats, standings, odds,
                   matchweek, result, rd>>

\* odds: one game of the filter_map of lines 224-233
OddsCollectStep ==
    /\ pc = "odds_collect"
    /\ idx <= Len(games)
    /\ before' = stats
    /\ IF InTargetRound(games[idx], matchweek)
       THEN LET o == OddsNew(games[idx], stats)
            IN  IF o.err # None
                THEN /\ pc' = "idle"
                     /\ result' = Failed("odds", o.err)
                     /\ UNCHANGED <<odds, idx>>
                ELSE /\ odds' = Append(odds, o.odds[1])
                     /\ idx' = idx + 1
                     /\ UNCHANGED <<pc, result>>
       ELSE /\ idx' = idx + 1
            /\ UNCHANGED <<odds, pc, result>>
    /\ UNCHANGED <<games, initial_elo_rating, k, stats, standings, matchweek, rd>>

\* odds: collect() returns Ok(vec)
OddsReturn ==
    /\ pc = "odds_collect"
    /\ idx > Len(games)
    /\ pc' = "idle"
    /\ result' = Returned("odds", odds)
    /\ UNCHANGED <<games, initial_elo_rating, k, idx, stats, before, standings,
                   odds, matchweek, rd>>

Next ==
    \/ CallStandings
    \/ StandingsStep
    \/ StandingsReturn
    \/ \E mw \in 1 .. MaxRound + 1 : CallOdds(mw)
    \/ OddsReplayStep
    \/ OddsReplayDone
    \/ OddsCollectStep
    \/ OddsReturn

Spec == Init /\ [][Next]_vars

\* The replay with the K factors that are not whole numbers as well
InitTie ==
    /\ games \in Seasons
    /\ initial_elo_rating \in InitialRatings
    /\ k \in KFactors \cup TieFactors
    /\ pc = "idle"
    /\ idx = 0
    /\ stats = SeasonStats(<<>>, 0)
    /\ before = SeasonStats(<<>>, 0)
    /\ standings = <<>>
    /\ odds = <<>>
    /\ matchweek = 0
    /\ result = None
    /\ rd = [status |-> "unused"]

SpecTie == InitTie /\ [][Next]_vars

----------------------------------------------------------------------------
(* Season::from_path: characters, trimming, number parsing *)

\* the character of line at position i (a one-character string)
Ch(line, i) == SubSeq(line, i, i)

CharsOf(str) == {Ch(str, i) : i \in 1 .. Len(str)}

\* \d, [[:alpha:]] and \s over the characters the model's lines use
IsDigit(c) == c \in CharsOf("0123456789")
IsAlpha(c) == c \in CharsOf("ABCDEFGHIJKLMNOPQRSTUVWXYZabcdefghijklmnopqrstuvwxyz")
IsSpace(c) == c \in {" ", "\t"}

AllDigits(str) == \A i \in 1 .. Len(str) : IsDigit(Ch(str, i))
AllAlpha(str) == \A i \in 1 .. Len(str) : IsAlpha(Ch(str, i))
AllSpace(str) == \A i \in 1 .. Len(str) : IsSpace(Ch(str, i))

\* str::trim
Trim(line) ==
    LET keep == {i \in 1 .. Len(line) : ~IsSpace(Ch(line, i))}
    IN  IF keep = {} THEN ""
        ELSE SubSeq(line, CHOOSE i \in keep : \A j \in keep : i <= j,
                          CHOOSE i \in keep : \A j \in keep : j <= i)

DigitValue(c) == CHOOSE v \in 0 .. 9 : Ch("0123456789", v + 1) = c

RECURSIVE DecimalValue(_)
DecimalValue(digits) ==
    IF digits = "" THEN 0
    ELSE 10 * DecimalValue(SubSeq(digits, 1, Len(digits) - 1))
         + DigitValue(Ch(digits, Len(digits)))

\* str::parse::<u16> of a run of digits: None is Err(ParseIntError)
ParseU16(digits) ==
    LET n == Len(digits)
        low == IF n > 5 THEN SubSeq(digits, n - 4, n) ELSE digits
    IN  IF (\E i \in 1 .. n - 5 : Ch(digits, i) # "0") \/ DecimalValue(low) > 65535
        THEN None
        ELSE Some(DecimalValue(low))

----------------------------------------------------------------------------
(* Season::from_path: the four regular expressions *)

\* header_regex  ^# (?P<name>.+) (?P<year>\d{4})/\d{2}$
HeaderCaptures(line) ==
    LET n == Len(line)
    IN  IF /\ n >= 11
           /\ SubSeq(line, 1, 2) = "# "
           /\ Ch(line, n - 7) = " "
           /\ AllDigits(SubSeq(line, n - 6, n - 3))
           /\ Ch(line, n - 2) = "/"
           /\ AllDigits(SubSeq(line, n - 1, n))
        THEN Some([name |-> SubSeq(line, 3, n - 8),
                   year |-> SubSeq(line, n - 6, n - 3)])
        ELSE None

\* MatchdayCaptures taking the word Round for Matchday as well
MatchdayOrRoundCaptures(line) ==
    LET n == Len(line)
    IN  IF /\ n >= 10
           /\ SubSeq(line, 1, 9) = "Matchday "
           /\ AllDigits(SubSeq(line, 10, n))
        THEN Some([matchweek |-> SubSeq(line, 10, n)])
        ELSE IF /\ n >= 7
                /\ SubSeq(line, 1, 6) = "Round "
                /\ AllDigits(SubSeq(line, 7, n))
        THEN Some([matchweek |-> SubSeq(line, 7, n)])
        ELSE None

\* matchday_regex  ^Matchday (?P<matchweek>\d+)$
MatchdayCaptures(line) ==
    LET n == Len(line)
    IN  IF /\ n >= 10
           /\ SubSeq(line, 1, 9) = "Matchday "
           /\ AllDigits(SubSeq(line, 10, n))
        THEN Some([matchweek |-> SubSeq(line, 10, n)])
        ELSE None

\* date_regex  ^\[[[:alpha:]]{3} (?P<month>[[:alpha:]]{3})/(?P<day>\d+)\]$
DateCaptures(line) ==
    LET n == Len(line)
    IN  IF /\ n >= 11
           /\ Ch(line, 1) = "["
           /\ AllAlpha(SubSeq(line, 2, 4))
           /\ Ch(line, 5) = " "
           /\ AllAlpha(SubSeq(line, 6, 8))
           /\ Ch(line, 9) = "/"
           /\ AllDigits(SubSeq(line, 10, n - 1))
           /\ Ch(line, n) = "]"
        THEN Some([month |-> SubSeq(line, 6, 8),
                   day |-> SubSeq(line, 10, n - 1)])
        ELSE None

\* the end of the longest run of \s that starts at position i (i - 1: no run)
SpaceRunEnd(line, i) ==
    CHOOSE j \in i - 1 .. Len(line) :
        /\ AllSpace(SubSeq(line, i, j))
        /\ j = Len(line) \/ ~IsSpace(Ch(line, j + 1))

\* the end of the longest run of \d that starts at position i (i - 1: no run)
DigitRunEnd(line, i) ==
    CHOOSE j \in i - 1 .. Len(line) :
        /\ AllDigits(SubSeq(line, i, j))
        /\ j = Len(line) \/ ~IsDigit(Ch(line, j + 1))

\* (\s*postponed)?$ matches what follows position f
PostponedTail(line, f) ==
    \/ f = Len(line)
    \/ SubSeq(line, SpaceRunEnd(line, f + 1) + 1, Len(line)) = "postponed"

\* The match of game_regex with home = line[1 .. a], if there is one.  After
\* home the pattern is  \s+ (\d+)? - (\d+)? \s+ away (\s*postponed)? $ : the
\* greedy runs of \s and \d are the longest ones (the character that follows
\* each must be of another class), away is lazy, so it ends at the first
\* position whose rest matches (\s*postponed)?$.
GameMatchAt(line, a) ==
    LET n == Len(line)
        b == SpaceRunEnd(line, a + 1)
        c == DigitRunEnd(line, b + 1)
        d == DigitRunEnd(line, c + 2)
        w == SpaceRunEnd(line, d + 1)
        e == IF w = n THEN n - 1 ELSE w
    IN  IF /\ b >= a + 1
           /\ c + 1 <= n
           /\ Ch(line, c + 1) = "-"
           /\ e >= d + 1
        THEN LET f == CHOOSE x \in e + 1 .. n :
                        /\ PostponedTail(line, x)
                        /\ \A y \in e + 1 .. x - 1 : ~PostponedTail(line, y)
             IN  Some([home |-> SubSeq(line, 1, a),
                       home_score |-> IF c > b THEN Some(SubSeq(line, b + 1, c))
                                               ELSE None,
                       away_score |-> IF d > c + 1
                                      THEN Some(SubSeq(line, c + 2, d))
                                      ELSE None,
                       away |-> SubSeq(line, e + 1, f)])
        ELSE None

\* game_regex: home is lazy (.+?), so the match is the one with the shortest
\* home for which the rest of the pattern matches
GameCaptures(line) ==
    LET as == {a \in 1 .. Len(line) : GameMatchAt(line, a) # None}
    IN  IF as = {} THEN None
        ELSE GameMatchAt(line, CHOOSE a \in as : \A x \in as : a <= x)

\* the branch of the if / else-if chain of lines 129-163 a trimmed line takes
Shape(line) ==
    IF line = "" \/ \A i \in 1 .. Len(line) : Ch(line, i) = "#" THEN "blank"
    ELSE IF HeaderCaptures(line) # None THEN "header"
    ELSE IF MatchdayCaptures(line) # None THEN "matchday"
    ELSE IF DateCaptures(line) # None THEN "date"
    ELSE IF GameCaptures(line) # None THEN "game"
    ELSE "invalid"

----------------------------------------------------------------------------
(* Season::from_path: dates (chrono::NaiveDate as [year, month, day]) *)

IsLeapYear(y) == (y % 4 = 0 /\ y % 100 # 0) \/ y % 400 = 0

DaysInMonth(y, m) ==
    IF m = 2 THEN (IF IsLeapYear(y) THEN 29 ELSE 28)
    ELSE IF m \in {4, 6, 9, 11} THEN 30 ELSE 31

\* the month names %b accepts, compared without regard to case
MonthNames == <<"jan", "feb", "mar", "apr", "may", "jun",
                "jul", "aug", "sep", "oct", "nov", "dec">>

LowerChar(c) ==
    LET up == "ABCDEFGHIJKLMNOPQRSTUVWXYZ"
        lo == "abcdefghijklmnopqrstuvwxyz"
    IN  IF c \in CharsOf(up)
        THEN Ch(lo, CHOOSE i \in 1 .. 26 : Ch(up, i) = c)
        ELSE c

Lower3(str) == LowerChar(Ch(str, 1)) \o LowerChar(Ch(str, 2)) \o LowerChar(Ch(str, 3))

\* NaiveDate::parse_from_str(&format!("{} {} {}", year, month, day), "%Y %b %d"):
\* None is Err(chrono::ParseError).  %d reads at most two digits, and what it
\* leaves unread is an error.
ParseFromStr(y, month, day) ==
    LET ms == {m \in 1 .. 12 : MonthNames[m] = Lower3(month)}
    IN  IF ms = {} \/ Len(day) > 2 THEN None
        ELSE LET m == CHOOSE x \in ms : TRUE
                 d == DecimalValue(day)
             IN  IF d >= 1 /\ d <= DaysInMonth(y, m)
                 THEN Some([year |-> y, month |-> m, day |-> d])
                 ELSE None

\* NaiveDate::with_year: None when the day does not exist in that year
WithYear(date, y) ==
    IF date.day <= DaysInMonth(y, date.month)
    THEN Some([date EXCEPT !.year = y])
    ELSE None

----------------------------------------------------------------------------
(* Season::from_path: the branches of the loop body *)

\* Game::new
GameNew(mw, date, home, away) ==
    [date |-> date, matchweek |-> mw, home |-> home, away |-> away,
     scores |-> None]

\* Game::set_scores
SetScores(game, home, away) ==
    [game EXCEPT !.scores = Some([home |-> home, away |-> away])]

\* return Err(e): the locals, games included, are dropped
Abort(r, kind, text) ==
    [r EXCEPT !.status = "err", !.error = Some([kind |-> kind, text |-> text])]

\* line 132
OnHeader(r, line) ==
    [r EXCEPT !.year = DecimalValue(HeaderCaptures(line)[1].year)]

\* OnMatchday moving the games already assembled to the new round as well
OnMatchdayRetag(r, line) ==
    LET v == ParseU16(MatchdayCaptures(line)[1].matchweek)
    IN  IF v = None THEN Abort(r, "ParseIntError", "")
        ELSE [r EXCEPT !.matchweek = v[1],
                       !.games = [i \in DOMAIN @ |-> [@[i] EXCEPT !.matchweek = v[1]]]]

\* line 134
OnMatchday(r, line) ==
    LET v == ParseU16(MatchdayCaptures(line)[1].matchweek)
    IN  IF v = None THEN Abort(r, "ParseIntError", "")
        ELSE [r EXCEPT !.matchweek = v[1]]

\* OnDate moving the months before August, not before July, to the next year
OnDateThroughJuly(r, line) ==
    LET caps == DateCaptures(line)[1]
        parsed == ParseFromStr(r.year, caps.month, caps.day)
    IN  IF parsed = None THEN Abort(r, "chrono::ParseError", "")
        ELSE IF parsed[1].month < 8
        THEN LET moved == WithYear(parsed[1], r.year + 1)
             IN  IF moved = None
                 THEN [r EXCEPT !.status = "panic"]
                 ELSE [r EXCEPT !.date = moved[1]]
        ELSE [r EXCEPT !.date = parsed[1]]

\* lines 136-147
OnDate(r, line) ==
    LET caps == DateCaptures(line)[1]
        parsed == ParseFromStr(r.year, caps.month, caps.day)
    IN  IF parsed = None THEN Abort(r, "chrono::ParseError", "")
        ELSE IF parsed[1].month < 7
        THEN LET moved == WithYear(parsed[1], r.year + 1)
             IN  IF moved = None
                 THEN [r EXCEPT !.status = "panic"]   \* unwrap() of None
                 ELSE [r EXCEPT !.date = moved[1]]
        ELSE [r EXCEPT !.date = parsed[1]]

\* OnGame keeping a game only when it has both scores
OnGamePlayedOnly(r, line) ==
    LET caps == GameCaptures(line)[1]
        game == GameNew(r.matchweek, r.date, caps.home, caps.away)
    IN  IF caps.home_score # None /\ caps.away_score # None
        THEN LET home_score == ParseU16(caps.home_score[1])
                 away_score == ParseU16(caps.away_score[1])
             IN  IF home_score = None \/ away_score = None
                 THEN Abort(r, "ParseIntError", "")
                 ELSE [r EXCEPT !.games = Append(@,
                          SetScores(game, home_score[1], away_score[1]))]
        ELSE r

\* lines 149-160
OnGame(r, line) ==
    LET caps == GameCaptures(line)[1]
        game == GameNew(r.matchweek, r.date, caps.home, caps.away)
    IN  IF caps.home_score # None /\ caps.away_score # None
        THEN LET home_score == ParseU16(caps.home_score[1])
                 away_score == ParseU16(caps.away_score[1])
             IN  IF home_score = None \/ away_score = None
                 THEN Abort(r, "ParseIntError", "")
                 ELSE [r EXCEPT !.games = Append(@,
                          SetScores(game, home_score[1], away_score[1]))]
        ELSE [r EXCEPT !.games = Append(@, game)]

\* OnInvalid going on to the next line
OnInvalidIgnored(r, line) == r

\* line 162
OnInvalid(r, line) == Abort(r, "InvalidSeasonLine", line)

----------------------------------------------------------------------------
(* Season::from_path, one line of the file per step *)

MaxLines == 3

\* the lines a season file of the model is made of
Lines ==
    { " ", "##",
      "# PL 2019/20", "# PL 2020/21",
      "Matchday 1", "Matchday 2", "Matchday 70000",
      "[Sat Aug/10]", "[Wed Jan/1]", "[Sat Jul/18]", "[Sat Feb/29]",
      "A 2-1 B", " B - A", "A 2- B", "A -1 B", "B 0-0 A postponed",
      "???", " Round 1" }

\* Utc::today().naive_utc(), the date before any date marker
Todays == {[year |-> 2026, month |-> 11, day |-> 5]}

\* The locals of from_path: text is the lines read so far (as they are in
\* the file, untrimmed), season the Option of the Season returned.
InitParse ==
    /\ rd \in { [status |-> "reading", text |-> <<>>, year |-> 0,
                 matchweek |-> 0, date |-> t, games |-> <<>>,
                 error |-> None, season |-> None] : t \in Todays }
    /\ games = <<>>
    /\ initial_elo_rating = 0
    /\ k = 0
    /\ pc = "idle"
    /\ idx = 0
    /\ stats = SeasonStats(<<>>, 0)
    /\ before = SeasonStats(<<>>, 0)
    /\ standings = <<>>
    /\ odds = <<>>
    /\ matchweek = 0
    /\ result = None

\* line 128 and the chain of lines 129-163: the branch each line of Lines takes
ShapeOfLine == [raw \in Lines |-> Shape(Trim(raw))]

CanRead == rd.status = "reading" /\ Len(rd.text) < MaxLines

Taken(raw) == [rd EXCEPT !.text = Append(@, raw)]

\* line 130: continue
ReadBlank ==
    /\ CanRead
    /\ \E raw \in Lines :
          /\ ShapeOfLine[raw] = "blank"
          /\ rd' = Taken(raw)
    /\ UNCHANGED replayVars

ReadHeader ==
    /\ CanRead
    /\ \E raw \in Lines :
          /\ ShapeOfLine[raw] = "header"
          /\ rd' = OnHeader(Taken(raw), Trim(raw))
    /\ UNCHANGED replayVars

ReadMatchday ==
    /\ CanRead
    /\ \E raw \in Lines :
          /\ ShapeOfLine[raw] = "matchday"
          /\ rd' = OnMatchday(Taken(raw), Trim(raw))
    /\ UNCHANGED replayVars

ReadDate ==
    /\ CanRead
    /\ \E raw \in Lines :
          /\ ShapeOfLine[raw] = "date"
          /\ rd' = OnDate(Taken(raw), Trim(raw))
    /\ UNCHANGED replayVars

ReadGame ==
    /\ CanRead
    /\ \E raw \in Lines :
          /\ ShapeOfLine[raw] = "game"
          /\ rd' = OnGame(Taken(raw), Trim(raw))
    /\ UNCHANGED replayVars

ReadInvalid ==
    /\ CanRead
    /\ \E raw \in Lines :
          /\ ShapeOfLine[raw] = "invalid"
          /\ rd' = OnInvalid(Taken(raw), Trim(raw))
    /\ UNCHANGED replayVars

\* the file is exhausted: line 166, Ok(Season { games })
ReadEof ==
    /\ rd.status = "reading"
    /\ rd' = [rd EXCEPT !.status = "ok", !.season = Some([games |-> rd.games])]
    /\ UNCHANGED replayVars

NextParse ==
    \/ ReadBlank
    \/ ReadHeader
    \/ ReadMatchday
    \/ ReadDate
    \/ ReadGame
    \/ ReadInvalid
    \/ ReadEof

SpecParse == InitParse /\ [][NextParse]_vars

----------------------------------------------------------------------------
(* Properties of the replay (Spec) *)

Played(g) == g.scores # None

\* the game the last iteration of a replay loop applied update_stats to
LastGame == games[idx - 1]

\* the last step was an iteration of a replay loop that called update_stats
Replayed ==
    /\ pc \in {"standings", "odds_replay"}
    /\ idx > 1
    /\ pc = "odds_replay" => LastGame.matchweek < matchweek

\* K * (actual - expected), rounded, for a side that scored gf against ga
Delta(gf, ga, expected) == RoundedDelta(k, ActualScore(gf, ga), expected)

\* C1: whenever a replay (standings or odds) has processed a played fixture,
\* both sides' rating changes are the ones computed from the two ratings the
\* accumulators held before the fixture: the away side's change is not
\* computed from the home side's updated rating, nor the other way round.
C1_Simultaneity ==
    (Replayed /\ Played(LastGame)) =>
        LET g == LastGame
            sc == g.scores[1]
            e == expected_score(before[g.home].elo_rating,
                                before[g.away].elo_rating)
            dh == Delta(sc.home, sc.away, e[1])
            da == Delta(sc.away, sc.home, e[2])
        IN  IF g.home # g.away
            THEN /\ stats[g.home].elo_rating = before[g.home].elo_rating + dh
                 /\ stats[g.away].elo_rating = before[g.away].elo_rating + da
            ELSE stats[g.home].elo_rating = before[g.home].elo_rating + dh + da

\* a replay has just processed a played fixture between two teams whose
\* ratings differed, and both ratings moved
C1_Witness ==
    /\ Replayed /\ Played(LastGame)
    /\ pc = "odds_replay"
    /\ LastGame.home # LastGame.away
    /\ before[LastGame.home].elo_rating # before[LastGame.away].elo_rating
    /\ stats[LastGame.home].elo_rating # before[LastGame.home].elo_rating
    /\ stats[LastGame.away].elo_rating # before[LastGame.away].elo_rating

\* C2: with K = 32, a decisive fixture between two distinct teams of equal
\* pre-game rating R leaves a Standing with rating R + 16 and one more win
\* for the winner, and one with R - 16 and one more loss for the loser.
C2_EqualRatings ==
    (/\ pc = "standings" /\ idx > 1 /\ Played(LastGame)
     /\ k = 32 * Scale
     /\ LastGame.home # LastGame.away
     /\ before[LastGame.home].elo_rating = before[LastGame.away].elo_rating
     /\ LastGame.scores[1].home # LastGame.scores[1].away) =>
        LET g == LastGame
            homeWon == g.scores[1].home > g.scores[1].away
            winner == IF homeWon THEN g.home ELSE g.away
            loser == IF homeWon THEN g.away ELSE g.home
            n == Len(standings)
            W == IF homeWon THEN standings[n - 1] ELSE standings[n]
            L == IF homeWon THEN standings[n] ELSE standings[n - 1]
            R == before[winner].elo_rating
        IN  /\ W.team = winner
            /\ W.elo_rating = R + 16
            /\ W.wins = before[winner].wins + 1
            /\ W.losses = before[winner].losses
            /\ L.team = loser
            /\ L.elo_rating = R - 16
            /\ L.losses = before[loser].losses + 1
            /\ L.wins = before[loser].wins

\* the first fixture of a season, decisive, replayed from 1500 with K = 32:
\* 1516 for the winner, 1484 for the loser
C2_Witness ==
    /\ pc = "standings" /\ idx = 2 /\ k = 32 * Scale
    /\ initial_elo_rating = 1500
    /\ Played(LastGame)
    /\ LastGame.home # LastGame.away
    /\ LastGame.scores[1].home > LastGame.scores[1].away
    /\ Len(standings) = 2
    /\ standings[1].elo_rating = 1516 /\ standings[1].wins = 1
    /\ standings[2].elo_rating = 1484 /\ standings[2].losses = 1

\* the number of played games among the first n of gs
RECURSIVE PlayedCount(_, _)
PlayedCount(gs, n) ==
    IF n = 0 THEN 0
    ELSE PlayedCount(gs, n - 1) + (IF Played(gs[n]) THEN 1 ELSE 0)

\* C3: standings holds exactly two Standings per played fixture processed and
\* none per unplayed one, so what it returns has 2 x |played fixtures|
\* records; and processing an unplayed fixture leaves every accumulator as
\* it was.
C3_TwoPerPlayed ==
    /\ pc = "standings" => Len(standings) = 2 * PlayedCount(games, idx - 1)
    /\ (result # None /\ result[1].call = "standings") =>
          /\ result[1].err = None
          /\ Len(result[1].value) = 2 * PlayedCount(games, Len(games))
    /\ (Replayed /\ ~Played(LastGame)) => stats = before

\* standings has run over a season with a played and an unplayed fixture
C3_Witness ==
    /\ result # None /\ result[1].call = "standings"
    /\ Len(games) = 2
    /\ ~Played(games[1]) /\ Played(games[2])
    /\ Len(result[1].value) = 2

\* The replay as a whole, for reference: the accumulators after update_stats
\* was applied, in order, to those of the first n games of gs that are of a
\* round before mw, starting from st
RECURSIVE StatsAfter(_, _, _, _, _)
StatsAfter(gs, n, st, kk, mw) ==
    IF n = 0 THEN st
    ELSE LET s == StatsAfter(gs, n - 1, st, kk, mw)
         IN  IF gs[n].matchweek < mw THEN UpdateStats(s, gs[n], kk).stats ELSE s

\* the Odds of the fixtures of round mw of gs, evaluated from the fresh
\* accumulators replayed over the rounds before mw
OddsOf(gs, initial, kk, mw) ==
    LET st == StatsAfter(gs, Len(gs), SeasonStats(gs, initial), kk, mw)
        round == SelectSeq(gs, LAMBDA g : g.matchweek = mw)
    IN  [i \in 1 .. Len(round) |-> OddsNew(round[i], st).odds[1]]

\* the Standings of gs, replayed from fresh accumulators
RECURSIVE StandingsAfter(_, _, _, _)
StandingsAfter(gs, n, initial, kk) ==
    IF n = 0 THEN <<>>
    ELSE LET r == UpdateStats(
                    StatsAfter(gs, n - 1, SeasonStats(gs, initial), kk, MaxRound + 2),
                    gs[n], kk)
         IN  StandingsAfter(gs, n - 1, initial, kk)
                \o (IF r.out = None THEN <<>> ELSE r.out[1])

OddsReturned == result # None /\ result[1].call = "odds"
StandingsReturned == result # None /\ result[1].call = "standings"

ScoreOptions == {None} \cup {Some(x) : x \in Scores}

\* C8: what odds returns for round R depends on no score of a fixture of
\* round R or later: it is what the replay of the rounds before R gives for
\* the Season with the score of any one such fixture filled in, changed or
\* removed (wherever the fixture sits in the file).
C8_OddsIgnoreLaterScores ==
    OddsReturned =>
        /\ result[1].err = None
        /\ \A j \in 1 .. Len(games) : \A sc \in ScoreOptions :
              games[j].matchweek >= matchweek =>
                  result[1].value =
                      OddsOf([games EXCEPT ![j].scores = sc],
                             initial_elo_rating, k, matchweek)

\* odds has returned records for a round whose played fixture comes first in
\* the file, before a played fixture of an earlier round
C8_Witness ==
    /\ OddsReturned
    /\ Len(games) = 2
    /\ games[1].matchweek = matchweek /\ Played(games[1])
    /\ games[2].matchweek < matchweek /\ Played(games[2])
    /\ games[1].scores[1].home > games[1].scores[1].away
    /\ games[2].scores[1].home > games[2].scores[1].away
    /\ games[1].home # games[1].away
    /\ games[2] = [games[1] EXCEPT !.matchweek = games[2].matchweek,
                                   !.date = games[2].date]
    /\ Len(result[1].value) = 1
    /\ result[1].value[1].home_expected_score > Scale \div 2

\* the fixtures of round mw among the first n of gs, in order
RoundFixtures(gs, n, mw) == SelectSeq(SubSeq(gs, 1, n), LAMBDA g : g.matchweek = mw)

\* rs holds one Odds per fixture of fs, in order, each naming the fixture's
\* teams and evaluated from the ratings of st
OddsMatch(rs, fs, st) ==
    /\ Len(rs) = Len(fs)
    /\ \A i \in 1 .. Len(fs) :
          LET e == expected_score(st[fs[i].home].elo_rating,
                                  st[fs[i].away].elo_rating)
          IN  rs[i] = [home |-> fs[i].home, home_expected_score |-> e[1].value,
                       away |-> fs[i].away, away_expected_score |-> e[2].value]

\* C9: odds emits one Odds per fixture of the target round, played or not,
\* and none for another fixture, in Season order, each naming the fixture's
\* teams; collecting them changes no accumulator, so every record is
\* evaluated from the same ratings.
C9_OddsPerRoundFixture ==
    /\ pc = "odds_collect" =>
          /\ stats = before
          /\ OddsMatch(odds, RoundFixtures(games, idx - 1, matchweek), stats)
    /\ OddsReturned =>
          /\ stats = before
          /\ OddsMatch(result[1].value,
                       RoundFixtures(games, Len(games), matchweek), stats)

\* odds has returned two records for a round of a played and an unplayed
\* fixture, after a season that also has a fixture of another round
C9_Witness ==
    /\ OddsReturned
    /\ Len(result[1].value) = 2
    /\ \E i, j \in 1 .. Len(games) :
          /\ games[i].matchweek = matchweek /\ Played(games[i])
          /\ games[j].matchweek = matchweek /\ ~Played(games[j])

\* C10: whatever calls were made before, a call returns what the replay of
\* the Season from fresh accumulators (the initial rating, zero counters)
\* gives for its parameters.
C10_CallsIndependent ==
    /\ StandingsReturned =>
          result[1] = [call |-> "standings", err |-> None,
                       value |-> StandingsAfter(games, Len(games),
                                                initial_elo_rating, k)]
    /\ OddsReturned =>
          result[1] = [call |-> "odds", err |-> None,
                       value |-> OddsOf(games, initial_elo_rating, k, matchweek)]

\* standings has returned after an odds call that replayed a decisive fixture
C10_Witness ==
    /\ StandingsReturned
    /\ matchweek = 2
    /\ Len(result[1].value) = 4
    /\ games[1].matchweek = 1
    /\ result[1].value[1].elo_rating # initial_elo_rating

----------------------------------------------------------------------------
(* Properties of the reader (SpecParse) *)

\* what game_regex captures in each line of Lines
CapturesOfLine == [raw \in Lines |-> GameCaptures(Trim(raw))]

IsFixtureLine(raw) == ShapeOfLine[raw] = "game"

\* the fixture lines read so far, in file order
FixtureLines == SelectSeq(rd.text, IsFixtureLine)

BothGoals(raw) ==
    CapturesOfLine[raw][1].home_score # None /\ CapturesOfLine[raw][1].away_score # None

\* a fixture line with exactly one of its two goal fields
OneGoalField(raw) ==
    /\ IsFixtureLine(raw)
    /\ (CapturesOfLine[raw][1].home_score = None)
         # (CapturesOfLine[raw][1].away_score = None)

LastLine == rd.text[Len(rd.text)]
MonthOfMarker(raw) ==
    CHOOSE m \in 1 .. 12 : MonthNames[m] = Lower3(DateCaptures(Trim(raw))[1].month)

\* the line just read has had its effect on the locals of from_path
LineTookEffect ==
    LET raw == LastLine
        shape == ShapeOfLine[raw]
    IN  /\ shape = "header" =>
              rd.year = DecimalValue(HeaderCaptures(Trim(raw))[1].year)
        /\ shape = "matchday" =>
              rd.matchweek = DecimalValue(MatchdayCaptures(Trim(raw))[1].matchweek)
        /\ shape = "date" =>
              /\ rd.date.month = MonthOfMarker(raw)
              /\ rd.date.day = DecimalValue(DateCaptures(Trim(raw))[1].day)
        /\ shape = "game" =>
              /\ Len(rd.games) = Len(FixtureLines)
              /\ rd.games[Len(rd.games)].home = CapturesOfLine[raw][1].home
              /\ rd.games[Len(rd.games)].away = CapturesOfLine[raw][1].away

\* C5: no line is dropped silently.  A line that is not blank has either
\* had its effect on the parse context or the fixtures, or has ended
\* from_path.  A line of none of the recognized shapes is the last line
\* read: from_path has failed there with InvalidSeasonLine carrying the
\* trimmed line; and a from_path that failed holds no Season.
C5_InvalidLineRejected ==
    /\ (rd.status = "reading" /\ Len(rd.text) > 0) => LineTookEffect
    /\ \A i \in 1 .. Len(rd.text) :
          ShapeOfLine[rd.text[i]] = "invalid" =>
              /\ i = Len(rd.text)
              /\ rd.status = "err"
              /\ rd.error = Some([kind |-> "InvalidSeasonLine",
                                  text |-> Trim(rd.text[i])])
    /\ rd.status # "ok" => rd.season = None

\* from_path has failed on `???` after reading a fixture
C5_Witness ==
    /\ rd.status = "err"
    /\ Len(rd.text) = 3
    /\ Len(rd.games) = 1
    /\ rd.text[3] = "???"
    /\ rd.error = Some([kind |-> "InvalidSeasonLine", text |-> "???"])
    /\ rd.season = None

\* C6 (as claimed): a fixture line with exactly one goal field makes
\* from_path fail; so no file that from_path is still reading, or has
\* returned a Season for, holds such a line.
C6_OneGoalFieldFails ==
    (rd.status \in {"reading", "ok"}) =>
        \A i \in 1 .. Len(rd.text) : ~OneGoalField(rd.text[i])

\* the position of the last header line read (0: none)
LastHeader ==
    LET hs == {i \in 1 .. Len(rd.text) : ShapeOfLine[rd.text[i]] = "header"}
    IN  IF hs = {} THEN 0 ELSE CHOOSE i \in hs : \A j \in hs : j <= i

\* the base year of the last header read
BaseYear == DecimalValue(HeaderCaptures(Trim(rd.text[LastHeader]))[1].year)

\* the last line read is a date marker, read under a header, and it resolved
DateMarkerResolved ==
    /\ rd.status = "reading"
    /\ Len(rd.text) > 0
    /\ ShapeOfLine[LastLine] = "date"
    /\ LastHeader > 0

\* the month the last line read names
MarkerMonth == MonthOfMarker(LastLine)

\* C7 (as claimed): under a header with base year Y, a date marker of August
\* to December resolves to year Y and one of January to July to year Y + 1.
C7_JulyNextYear ==
    DateMarkerResolved =>
        /\ rd.date.month = MarkerMonth
        /\ rd.date.year = IF MarkerMonth >= 8 THEN BaseYear ELSE BaseYear + 1

\* C7 (amended): a date marker that resolves to a date resolves to year Y
\* when its month is July to December, and to year Y + 1 when it is January
\* to June.
C7_JuneNextYear ==
    DateMarkerResolved =>
        /\ rd.date.month = MarkerMonth
        /\ rd.date.year = IF MarkerMonth >= 7 THEN BaseYear ELSE BaseYear + 1

\* a July marker has resolved to the header's base year
C7_Witness ==
    /\ DateMarkerResolved
    /\ MarkerMonth = 7
    /\ rd.date = [year |-> BaseYear, month |-> 7, day |-> 18]

\* the positions in the file read so far of the lines of a shape
PositionsOf(shape) == {p \in 1 .. Len(rd.text) : ShapeOfLine[rd.text[p]] = shape}

\* the position of the i-th fixture line read
FixturePos(i) ==
    CHOOSE p \in PositionsOf("game") :
        Cardinality({q \in PositionsOf("game") : q <= p}) = i

\* the position of the last line of a shape before position p (0: none)
LastBefore(shape, p) ==
    LET qs == {q \in PositionsOf(shape) : q < p}
    IN  IF qs = {} THEN 0 ELSE CHOOSE q \in qs : \A x \in qs : x <= q

\* the round of the most recent round marker before position p (0: none)
RoundAt(p) ==
    LET q == LastBefore("matchday", p)
    IN  IF q = 0 THEN 0
        ELSE DecimalValue(MatchdayCaptures(Trim(rd.text[q]))[1].matchweek)

\* the base year of the most recent header before position p (0: none)
YearAt(p) ==
    LET q == LastBefore("header", p)
    IN  IF q = 0 THEN 0
        ELSE DecimalValue(HeaderCaptures(Trim(rd.text[q]))[1].year)

\* the dates the most recent date marker before position p stands for (the
\* date of the day from_path runs on when there is none)
DatesAt(p) ==
    LET q == LastBefore("date", p)
    IN  IF q = 0 THEN Todays
        ELSE LET m == MonthOfMarker(rd.text[q])
             IN  {[year |-> IF m >= 7 THEN YearAt(q) ELSE YearAt(q) + 1,
                   month |-> m,
                   day |-> DecimalValue(DateCaptures(Trim(rd.text[q]))[1].day)]}

\* C11: every fixture assembled so far, and every fixture of the Season
\* returned, carries the round of the most recent round marker before its
\* line and the date of the most recent date marker before its line,
\* whatever markers were read after it; the running context is that of the
\* most recent markers read.
C11_ContextCarried ==
    (rd.status \in {"reading", "ok"}) =>
        /\ \A i \in 1 .. Len(rd.games) :
              /\ rd.games[i].matchweek = RoundAt(FixturePos(i))
              /\ rd.games[i].date \in DatesAt(FixturePos(i))
        /\ rd.matchweek = RoundAt(Len(rd.text) + 1)
        /\ rd.date \in DatesAt(Len(rd.text) + 1)

\* a round marker, a fixture and a second round marker were read: the
\* fixture is of the first round and the running round is the second
C11_Witness ==
    /\ rd.status = "reading"
    /\ rd.text = <<"Matchday 1", "A 2-1 B", "Matchday 2">>
    /\ rd.matchweek = 2
    /\ rd.games[1].matchweek = 1

\* a fixture read after two date markers carries the date of the second
C11_WitnessDate ==
    /\ rd.status = "reading"
    /\ rd.text = <<"[Wed Jan/1]", "[Sat Aug/10]", " B - A">>
    /\ rd.games[1].date = [year |-> 0, month |-> 8, day |-> 10]

\* a line that reads `<word> <N>` once trimmed, and its N
IsWordMarker(word, raw) ==
    LET l == Trim(raw)
        w == Len(word)
    IN  /\ Len(l) >= w + 2
        /\ SubSeq(l, 1, w + 1) = word \o " "
        /\ AllDigits(SubSeq(l, w + 2, Len(l)))
WordMarkerValue(word, raw) ==
    DecimalValue(SubSeq(Trim(raw), Len(word) + 2, Len(Trim(raw))))

\* C12 (as claimed): a line `Round <N>` is a round marker like
\* `Matchday <N>`: reading it does not make from_path fail, and it sets the
\* current round to N.
C12_RoundAccepted ==
    (Len(rd.text) > 0 /\ IsWordMarker("Round", LastLine)) =>
        /\ rd.status \in {"reading", "ok"}
        /\ rd.matchweek = WordMarkerValue("Round", LastLine)

\* C12 (amended): `Matchday <N>`, N no more than 65535, is the one round
\* marker: reading it sets the current round to N.  A line `Round <N>` is of
\* none of the recognized shapes: from_path fails on it with
\* InvalidSeasonLine carrying the trimmed line, and the round is not set.
C12_OnlyMatchday ==
    /\ (/\ Len(rd.text) > 0
        /\ IsWordMarker("Matchday", LastLine)
        /\ WordMarkerValue("Matchday", LastLine) <= 65535) =>
          /\ rd.status \in {"reading", "ok"}
          /\ rd.matchweek = WordMarkerValue("Matchday", LastLine)
    /\ (Len(rd.text) > 0 /\ IsWordMarker("Round", LastLine)) =>
          /\ rd.status = "err"
          /\ rd.error = Some([kind |-> "InvalidSeasonLine", text |-> Trim(LastLine)])
          /\ rd.matchweek = RoundAt(Len(rd.text))

\* from_path has failed on `Round 1`, read after `Matchday 2` and a fixture
C12_Witness ==
    /\ rd.status = "err"
    /\ rd.text = <<"Matchday 2", "A 2-1 B", " Round 1">>
    /\ rd.error = Some([kind |-> "InvalidSeasonLine", text |-> "Round 1"])
    /\ rd.matchweek = 2

----------------------------------------------------------------------------
(* Properties of the rating arithmetic (Spec) *)

Abs(x) == IF x >= 0 THEN x ELSE -x

\* r is the integer nearest to x (in units of 1/Scale), the one away from
\* zero when two are as near
NearestTiesAway(r, x) ==
    /\ 2 * Abs(r * Scale - x) <= Scale
    /\ 2 * Abs(r * Scale - x) = Scale => Abs(r * Scale) > Abs(x)

\* x lies half way between two integers
HalfInteger(x) == x % Scale = Scale \div 2

\* K * (actual - expected) of the two sides of the fixture last replayed,
\* from the ratings before it, in units of 1/Scale
RawDelta ==
    LET g == LastGame
        sc == g.scores[1]
        e == expected_score(before[g.home].elo_rating, before[g.away].elo_rating)
    IN  [home |-> (k \div Scale) * (ActualScore(sc.home, sc.away) - e[1].value),
         away |-> (k \div Scale) * (ActualScore(sc.away, sc.home) - e[2].value)]

\* the team of a side of the fixture last replayed
SideTeam(side) == IF side = "home" THEN LastGame.home ELSE LastGame.away

DistinctPlayedReplayed ==
    Replayed /\ Played(LastGame) /\ LastGame.home # LastGame.away

----------------------------------------------------------------------------
(* Properties of the counters (Spec) *)

\* 1 when the condition holds, else 0
Count(cond) == IF cond THEN 1 ELSE 0

\* the score of the same result with the smallest margin: 1-0, 0-0 or 0-1
NarrowScore(sc) ==
    [home |-> Count(sc.home > sc.away), away |-> Count(sc.away > sc.home)]

\* C14: a played fixture h-a adds h to the goals-for and a to the
\* goals-against of the home side, a and h to those of the away side, and
\* one win, draw or loss to each side by the result (a team that is both
\* sides of a fixture takes both sides' additions); no other team changes;
\* and every rating is what the same result by the smallest margin would
\* have made it, so the rating change does not depend on the goal margin.
C14_CountersAndMargin ==
    (Replayed /\ Played(LastGame)) =>
        LET g == LastGame
            h == g.scores[1].home
            a == g.scores[1].away
            narrow == PlayedUpdate(before, g, NarrowScore(g.scores[1]), k).stats
        IN  /\ DOMAIN stats = DOMAIN before
            /\ \A t \in DOMAIN stats :
                  LET isHome == t = g.home
                      isAway == t = g.away
                  IN  /\ stats[t].goals_for = before[t].goals_for
                            + (IF isHome THEN h ELSE 0) + (IF isAway THEN a ELSE 0)
                      /\ stats[t].goals_against = before[t].goals_against
                            + (IF isHome THEN a ELSE 0) + (IF isAway THEN h ELSE 0)
                      /\ stats[t].wins = before[t].wins
                            + Count(isHome /\ h > a) + Count(isAway /\ a > h)
                      /\ stats[t].losses = before[t].losses
                            + Count(isHome /\ h < a) + Count(isAway /\ a < h)
                      /\ stats[t].draws = before[t].draws
                            + Count(isHome /\ h = a) + Count(isAway /\ a = h)
                      /\ stats[t].elo_rating = narrow[t].elo_rating

\* a 2-0 home win between two teams at 1500 was replayed with K = 32: two
\* goals each way in the counters, 16 points each way in the ratings
C14_Witness ==
    /\ Replayed /\ Played(LastGame)
    /\ k = 32 * Scale
    /\ LastGame.home # LastGame.away
    /\ LastGame.scores[1] = [home |-> 2, away |-> 0]
    /\ before[LastGame.home].elo_rating = 1500
    /\ before[LastGame.away].elo_rating = 1500
    /\ stats[LastGame.home].goals_for = before[LastGame.home].goals_for + 2
    /\ stats[LastGame.away].goals_against = before[LastGame.away].goals_against + 2
    /\ stats[LastGame.home].elo_rating = 1516
    /\ stats[LastGame.away].elo_rating = 1484

----------------------------------------------------------------------------
(* Properties of the Standings (Spec) *)

\* a Standing of team for game g holding the counters and rating of s
SnapshotOf(g, team, s) ==
    [matchweek |-> g.matchweek, date |-> g.date, team |-> team,
     wins |-> s.wins, draws |-> s.draws, losses |-> s.losses,
     goals_for |-> s.goals_for, goals_against |-> s.goals_against,
     elo_rating |-> s.elo_rating]

\* the accumulators of a standings replay after the first n games
ReplayedTo(n) ==
    StatsAfter(games, n, SeasonStats(games, initial_elo_rating), k, MaxRound + 2)

GamesOf(s) == s.wins + s.draws + s.losses

\* sts holds, for each played game among the first n, the home side's
\* Standing and then the away side's, at the places 2i and 2i + 1 of the
\* claim (counted from 0) for the i-th played game, tagged with the game's
\* date and round, with the counters and rating after the side was updated
\* (for a game of two teams that is after the game; a team named as both
\* sides has its home Standing taken between the two updates)
StandingsInOrder(sts, n) ==
    /\ Len(sts) = 2 * PlayedCount(games, n)
    /\ \A j \in 1 .. n :
          Played(games[j]) =>
              LET g == games[j]
                  i == PlayedCount(games, j)
                  pre == ReplayedTo(j - 1)
                  post == ReplayedTo(j)
                  home == sts[2 * i - 1]
                  away == sts[2 * i]
              IN  /\ away = SnapshotOf(g, g.away, post[g.away])
                  /\ g.home # g.away => home = SnapshotOf(g, g.home, post[g.home])
                  /\ home = SnapshotOf(g, g.home,
                        Update(pre, g, g.home, g.scores[1].home, g.scores[1].away,
                               expected_score(pre[g.home].elo_rating,
                                              pre[g.away].elo_rating)[1],
                               k).stats[g.home])
                  /\ GamesOf(home) = GamesOf(pre[g.home]) + 1
                  /\ GamesOf(away) = GamesOf(home)
                                       + (IF g.home = g.away THEN 1 ELSE 0)
                                       + GamesOf(pre[g.away]) - GamesOf(pre[g.home])

\* sts holds, for the i-th played game among the first n, the home team's
\* Standing and then the away team's, each with the team's counters and
\* rating as they are once the game has been applied
StandingsPostFixture(sts, n) ==
    /\ Len(sts) = 2 * PlayedCount(games, n)
    /\ \A j \in 1 .. n :
          Played(games[j]) =>
              LET g == games[j]
                  i == PlayedCount(games, j)
                  post == ReplayedTo(j)
              IN  /\ sts[2 * i - 1] = SnapshotOf(g, g.home, post[g.home])
                  /\ sts[2 * i] = SnapshotOf(g, g.away, post[g.away])

\* C15 (as claimed): the Standings standings builds, and those it returns,
\* are in fixture order: the i-th played fixture's home Standing, then its
\* away Standing, each tagged with the fixture's date and round and holding
\* the team's counters and rating after the fixture was applied.
C15_PostFixture ==
    /\ pc = "standings" => StandingsPostFixture(standings, idx - 1)
    /\ StandingsReturned => StandingsPostFixture(result[1].value, Len(games))

\* C15 (amended): the Standings standings builds, and those it returns, are
\* in fixture order: the i-th played fixture's home Standing, then its away
\* Standing, each tagged with the fixture's date and round and holding the
\* team's counters and rating after that side was updated: after the
\* fixture for a fixture of two distinct teams; for a fixture naming one
\* team as both sides, the home Standing after the home side's update only
\* and the away Standing after both.
C15_StandingsOrder ==
    /\ pc = "standings" => StandingsInOrder(standings, idx - 1)
    /\ StandingsReturned =>
          /\ result[1].err = None
          /\ StandingsInOrder(result[1].value, Len(games))

\* standings has returned the four Standings of a rematch in a later round:
\* first fixture at places 1 and 2, second at 3 and 4, the second pair
\* carrying two games each
C15_Witness ==
    /\ StandingsReturned
    /\ Len(games) = 2
    /\ Played(games[1]) /\ Played(games[2])
    /\ games[1].home # games[1].away
    /\ games[2].home = games[1].away /\ games[2].away = games[1].home
    /\ games[1].matchweek < games[2].matchweek
    /\ Len(result[1].value) = 4
    /\ result[1].value[1].team = games[1].home
    /\ result[1].value[2].team = games[1].away
    /\ result[1].value[3].team = games[2].home
    /\ result[1].value[3].matchweek = games[2].matchweek
    /\ GamesOf(result[1].value[3]) = 2
    /\ GamesOf(result[1].value[4]) = 2

----------------------------------------------------------------------------
(* Properties of the accumulator map (Spec) *)

\* the names of the teams of the Season, home or away, played or not
TeamNames == {games[i].home : i \in 1 .. Len(games)}
                \cup {games[i].away : i \in 1 .. Len(games)}

\* C16: from the moment a call has built its accumulator map, before it
\* processes its first fixture, to its return, the keys of the map are
\* exactly the team names of the Season's fixtures, played or not; and no
\* call of standings or odds returns MissingTeam.
C16_KeysAreTeams ==
    /\ (pc # "idle" \/ result # None) => DOMAIN stats = TeamNames
    /\ pc # "idle" => DOMAIN before = TeamNames
    /\ result # None => result[1].err = None

\* odds has returned the Odds of an unplayed fixture one of whose teams has
\* no played fixture in the Season
C16_Witness ==
    /\ OddsReturned
    /\ result[1].err = None
    /\ Len(games) = 2
    /\ Played(games[1]) /\ games[1].home = "A" /\ games[1].away = "A"
    /\ ~Played(games[2]) /\ games[2].away = "B"
    /\ games[2].matchweek = matchweek
    /\ games[1].matchweek < matchweek
    /\ Len(result[1].value) = 1
    /\ result[1].value[1].away = "B"
    /\ DOMAIN stats = {"A", "B"}

----------------------------------------------------------------------------
(* Properties of the date markers (SpecParse) *)

\* the last line read is a date marker
DateMarkerRead == Len(rd.text) > 0 /\ ShapeOfLine[LastLine] = "date"

\* the day of the month the last line read names
MarkerDay == DecimalValue(DateCaptures(Trim(LastLine))[1].day)

\* the calendar year the last line read, a date marker, belongs to: the
\* base year of the header in force from July on, the next year before
ResolvedYear ==
    IF MarkerMonth >= 7 THEN YearAt(Len(rd.text)) ELSE YearAt(Len(rd.text)) + 1

\* C17 (as claimed): a date marker whose month and day name a day that
\* exists in the calendar year it resolves to yields that date and does not
\* make from_path fail; so `Feb/29` under the header 2019/20 is 2020-02-29.
C17_ExistingDayResolves ==
    (/\ DateMarkerRead
     /\ MarkerDay >= 1
     /\ MarkerDay <= DaysInMonth(ResolvedYear, MarkerMonth)) =>
        /\ rd.status \in {"reading", "ok"}
        /\ rd.date = [year |-> ResolvedYear, month |-> MarkerMonth,
                      day |-> MarkerDay]

----------------------------------------------------------------------------
(* Properties of the sum of the ratings (SpecTie) *)

\* the sum of the ratings the accumulators of the teams of S hold
RECURSIVE RatingSum(_)
RatingSum(S) ==
    IF S = {} THEN 0
    ELSE LET t == CHOOSE x \in S : TRUE
         IN  stats[t].elo_rating + RatingSum(S \ {t})

\* the sum of the ratings the replay started from
InitialSum == Cardinality(DOMAIN stats) * initial_elo_rating

\* a replay loop is running
Replaying == pc \in {"standings", "odds_replay"}

\* the played fixtures the running replay loop has applied so far
AppliedCount ==
    Cardinality({j \in 1 .. idx - 1 :
                    /\ Played(games[j])
                    /\ pc = "odds_replay" => games[j].matchweek < matchweek})

\* the sum of the two rating changes of the fixture last replayed
ChangeSum ==
    (stats[LastGame.home].elo_rating - before[LastGame.home].elo_rating)
      + (stats[LastGame.away].elo_rating - before[LastGame.away].elo_rating)

\* C18 (as claimed): the two rating changes of a played fixture between two
\* distinct teams are exact negatives, and during any replay the ratings
\* sum to (number of teams) x (initial rating).
C18_ZeroSum ==
    /\ DistinctPlayedReplayed => ChangeSum = 0
    /\ Replaying => RatingSum(DOMAIN stats) = InitialSum

\* C18 (amended): the two rating changes of a played fixture between two
\* distinct teams sum to -1, 0 or 1, and to 0 when K is a whole number (1 or
\* 32 here); so during a replay the ratings sum to (number of teams) x
\* (initial rating) give or take the number of played fixtures applied, and
\* to exactly that when K is a whole number.
C18_ZeroSumWhenExact ==
    /\ DistinctPlayedReplayed =>
          /\ ChangeSum \in {-1, 0, 1}
          /\ k % Scale = 0 => ChangeSum = 0
    /\ Replaying =>
          /\ Abs(RatingSum(DOMAIN stats) - InitialSum) <= AppliedCount
          /\ k % Scale = 0 => RatingSum(DOMAIN stats) = InitialSum

\* with the K of TieFactors the home side at 1498 has lost to the away side
\* at 1502: one point down, two points up, and the ratings sum to 3001
C18_Witness ==
    /\ DistinctPlayedReplayed
    /\ k \in TieFactors
    /\ before[LastGame.home].elo_rating = 1498
    /\ before[LastGame.away].elo_rating = 1502
    /\ stats[LastGame.home].elo_rating = 1497
    /\ stats[LastGame.away].elo_rating = 1504
    /\ RatingSum(DOMAIN stats) = 3001

----------------------------------------------------------------------------
(* Properties of the totals (Spec) *)

\* the played fixtures among the first n in which team t took part
FixturesTaken(t, n) ==
    Cardinality({j \in 1 .. n :
                    Played(games[j]) /\ (games[j].home = t \/ games[j].away = t)})

\* the sides team t took in the played fixtures among the first n: a
\* fixture that names t as home and as away counts twice
SidesTaken(t, n) ==
    Cardinality({j \in 1 .. n : Played(games[j]) /\ games[j].home = t})
      + Cardinality({j \in 1 .. n : Played(games[j]) /\ games[j].away = t})

\* the sum over the teams of S of a counter of the accumulators
RECURSIVE Total(_, _)
Total(S, field) ==
    IF S = {} THEN 0
    ELSE LET t == CHOOSE x \in S : TRUE
         IN  stats[t][field] + Total(S \ {t}, field)

\* wins and losses, and goals for and against, balance over the teams, and
\* the draws come in pairs
TotalsBalance ==
    /\ Total(DOMAIN stats, "wins") = Total(DOMAIN stats, "losses")
    /\ Total(DOMAIN stats, "draws") % 2 = 0
    /\ Total(DOMAIN stats, "goals_for") = Total(DOMAIN stats, "goals_against")

\* C19 (as claimed): during a standings replay each team's wins + draws +
\* losses is the number of played fixtures processed so far in which it took
\* part, and over all teams wins equal losses, draws are even in number and
\* goals for equal goals against.
C19_FixturesCounted ==
    pc = "standings" =>
        /\ \A t \in DOMAIN stats : GamesOf(stats[t]) = FixturesTaken(t, idx - 1)
        /\ TotalsBalance

\* C19 (amended): during a standings replay each team's wins + draws +
\* losses is the number of sides it took in the played fixtures processed so
\* far (for fixtures between two distinct teams, the number of those
\* fixtures; a fixture naming the team as both sides counts twice), and
\* over all teams wins equal losses, draws are even in number and goals for
\* equal goals against.
C19_SidesCounted ==
    pc = "standings" =>
        /\ \A t \in DOMAIN stats :
              /\ GamesOf(stats[t]) = SidesTaken(t, idx - 1)
              /\ (\A j \in 1 .. idx - 1 : games[j].home # games[j].away) =>
                    GamesOf(stats[t]) = FixturesTaken(t, idx - 1)
        /\ TotalsBalance

\* standings has processed a decisive fixture of A against A and a played
\* fixture of A against B: A holds three results from two fixtures
C19_Witness ==
    /\ pc = "standings" /\ idx = 3
    /\ Played(games[1]) /\ games[1].home = "A" /\ games[1].away = "A"
    /\ games[1].scores[1].home > games[1].scores[1].away
    /\ Played(games[2]) /\ games[2].home = "A" /\ games[2].away = "B"
    /\ GamesOf(stats["A"]) = 3
    /\ FixturesTaken("A", 2) = 2
    /\ stats["A"].wins >= 1 /\ stats["A"].losses >= 1
    /\ GamesOf(stats["B"]) = 1

----------------------------------------------------------------------------
(* The odds replay against the standings replay (Spec) *)

\* odds has finished its replay loop: the accumulators are those it reads
\* the ratings of the target round from
OddsReplayed == pc = "odds_collect" \/ OddsReturned

\* the rating of team t in its last Standing of sts, or the initial rating
\* when sts holds none for it
LastStandingRating(sts, t) ==
    LET at == {i \in 1 .. Len(sts) : sts[i].team = t}
    IN  IF at = {} THEN initial_elo_rating
        ELSE sts[CHOOSE i \in at : \A j \in at : j <= i].elo_rating

\* the target round of the odds call lies after the round of every fixture
TargetAfterAll == \A j \in 1 .. Len(games) : games[j].matchweek < matchweek

\* the rounds do not decrease in Season order
RoundsInOrder ==
    \A i, j \in 1 .. Len(games) :
        i <= j => games[i].matchweek <= games[j].matchweek

\* the length of the prefix of fixtures of a round before the target
PrefixBeforeTarget ==
    Cardinality({j \in 1 .. Len(games) : games[j].matchweek < matchweek})

\* C20: once odds has replayed, (a) for a target round after the round of
\* every fixture each team's rating is the one of its last Standing of the
\* standings replay with the same parameters, or the initial rating if it
\* has no played fixture; (b) when the rounds do not decrease in Season
\* order, the ratings are those the standings replay holds after the prefix
\* of fixtures of a round before the target.
C20_ReplaysAgree ==
    OddsReplayed =>
        /\ TargetAfterAll =>
              \A t \in DOMAIN stats :
                  stats[t].elo_rating =
                      LastStandingRating(
                          StandingsAfter(games, Len(games), initial_elo_rating, k),
                          t)
        /\ RoundsInOrder =>
              \A t \in DOMAIN stats :
                  stats[t].elo_rating = ReplayedTo(PrefixBeforeTarget)[t].elo_rating

\* odds has replayed, for a target round after every fixture, a decisive
\* fixture of round 1 and the return fixture of round 2, a draw: each team
\* has two Standings and the ratings have left the initial one
C20_Witness ==
    /\ OddsReplayed
    /\ TargetAfterAll /\ RoundsInOrder
    /\ Len(games) = 2
    /\ games[1].matchweek = 1 /\ games[2].matchweek = 2
    /\ Played(games[1]) /\ games[1].home = "A" /\ games[1].away = "B"
    /\ games[1].scores[1].home > games[1].scores[1].away
    /\ Played(games[2]) /\ games[2].home = "B" /\ games[2].away = "A"
    /\ games[2].scores[1].home = games[2].scores[1].away
    /\ PrefixBeforeTarget = 2
    /\ stats["A"].elo_rating > initial_elo_rating
    /\ stats["B"].elo_rating < initial_elo_rating

====
